---- MODULE Spec2Model ----
(***************************************************************************)
(* deadline-mcp-server: the documentation indexer (UniversalDocIndexer),   *)
(* the SQLite-backed query engine (DeadlineDocSearch), the curated remote  *)
(* backend (RemoteDeadlineSearch), the configuration manager and the MCP   *)
(* server start-up and tool dispatch.                                      *)
(*                                                                         *)
(* Strings are sequences of chunks.  A chunk is a maximal run of           *)
(* characters of one class: "w" (characters of the safe set), "s"          *)
(* (whitespace) or "x" (characters outside the safe set).  ChLen gives the *)
(* number of characters of a chunk, so the length thresholds of the code   *)
(* (20, 50, 300, 1000, 2000) keep their values.                            *)
(***************************************************************************)
EXTENDS Integers, Sequences, FiniteSets, TLC

VARIABLES
  db,        \* the SQLite database file shared by indexer and query engine
  queue,     \* statements the indexer's sqlite3 handle has queued, in order
  ix,        \* the indexer process (CLI run of UniversalDocIndexer); prev is
             \* the store its run began with, failed whether a write of it failed
  fsys,      \* which documentation directories exist on disk
  env,       \* whether DEADLINE_DOCS_PATH is set
  srv,       \* the MCP server process: "init", "running" or "exited"
  cfg,       \* ConfigManager.config: "null", "local" or "remote"
  faults,    \* store statements the environment has failed so far
  res        \* the outcome of the last engine or tool call

vars == <<db, queue, ix, fsys, env, srv, cfg, faults, res>>

(***************************************************************************)
(* Bounds of the model.                                                    *)
(***************************************************************************)
MaxFaults == 1      \* store statements that may fail in one behaviour
MaxLimit == 2       \* largest limit a caller passes

(***************************************************************************)
(* Text.                                                                   *)
(***************************************************************************)
None == "none"
Undefined == "undefined"

DocTypes == {"user-manual", "scripting-reference", "python-reference"}

Kind(c) ==
  IF c \in {" ", "  "} THEN "s"
  ELSE IF c \in {"@", "=", "<mark>", "</mark>", "################"} THEN "x"
  ELSE "w"

ChLen(c) ==
  CASE c = "Lorem" -> 60
    [] c = "Submit" -> 6
    [] c = "submit" -> 6
    [] c = "Plugin" -> 6
    [] c = "plugin" -> 6
    [] c = "plugins" -> 7
    [] c = "import" -> 6
    [] c = "create" -> 6
    [] c = "deadlinecon" -> 11
    [] c = "Index" -> 5
    [] c = "jobs" -> 4
    [] c = "Jobs" -> 4
    [] c = "job" -> 3
    [] c = "os" -> 2
    [] c = "  " -> 2
    [] c = "Dolor" -> 13
    [] c = "Ipsum" -> 1990
    [] c = "################" -> 16
    [] OTHER -> 1

\* String.prototype.toLowerCase, chunk by chunk
Lower(c) ==
  CASE c = "Lorem" -> "lorem"
    [] c = "Submit" -> "submit"
    [] c = "Plugin" -> "plugin"
    [] c = "Index" -> "index"
    [] c = "Jobs" -> "jobs"
    [] OTHER -> c

\* the search terms that occur as substrings of a lower-case word
SubTerms(w) ==
  CASE w = "jobs" -> {"job", "jobs"}
    [] w = "plugins" -> {"plugin", "plugins"}
    [] w = "deadlinecon" -> {"deadline", "deadlinecon"}
    [] OTHER -> {w}

RECURSIVE TextLen(_)
TextLen(t) == IF t = <<>> THEN 0 ELSE ChLen(Head(t)) + TextLen(Tail(t))

\* String.prototype.includes of a one-word term, on lower-cased text
Includes(t, term) == \E i \in 1..Len(t) : term \in SubTerms(t[i])

LowerText(t) == [i \in 1..Len(t) |-> Lower(t[i])]

\* String.prototype.includes of a phrase of words separated by one space
IncludesPhrase(t, phrase) ==
  \E i \in 1..Len(t) :
    /\ i + 2 * (Len(phrase) - 1) <= Len(t)
    /\ \A k \in 1..Len(phrase) :
         /\ IF Len(phrase) = 1
            THEN phrase[k] \in SubTerms(t[i])
            ELSE t[i + 2 * (k - 1)] = phrase[k]
         /\ k > 1 => t[i + 2 * (k - 1) - 1] = " "

RECURSIVE DropWs(_)
DropWs(t) == IF t # <<>> /\ Kind(Head(t)) = "s" THEN DropWs(Tail(t)) ELSE t

RECURSIVE CollapseWs(_)
CollapseWs(t) ==
  IF t = <<>> THEN <<>>
  ELSE IF Kind(Head(t)) = "s" THEN <<" ">> \o CollapseWs(DropWs(Tail(t)))
  ELSE <<Head(t)>> \o CollapseWs(Tail(t))

StripUnsafe(t) == SelectSeq(t, LAMBDA c : Kind(c) # "x")

RECURSIVE DropWsEnd(_)
DropWsEnd(t) ==
  IF t # <<>> /\ Kind(t[Len(t)]) = "s" THEN DropWsEnd(SubSeq(t, 1, Len(t) - 1)) ELSE t

Trim(t) == DropWsEnd(DropWs(t))

\* whitespace runs to one space, unsafe characters removed, then trimmed
cleanText(t) == Trim(StripUnsafe(CollapseWs(t)))

RECURSIVE Dedup(_)
\* [...new Set(list)]: first occurrences, in order
Dedup(s) ==
  IF s = <<>> THEN <<>>
  ELSE LET r == Dedup(SubSeq(s, 1, Len(s) - 1))
           x == s[Len(s)]
       IN IF \E i \in 1..Len(r) : r[i] = x THEN r ELSE Append(r, x)

RECURSIVE Flatten(_)
Flatten(ss) == IF ss = <<>> THEN <<>> ELSE Head(ss) \o Flatten(Tail(ss))

RECURSIVE JoinSp(_)
\* Array.prototype.join(' ')
JoinSp(ss) ==
  IF ss = <<>> THEN <<>>
  ELSE IF Len(ss) = 1 THEN ss[1]
  ELSE ss[1] \o <<" ">> \o JoinSp(Tail(ss))

Take(s, n) == SubSeq(s, 1, IF n < Len(s) THEN n ELSE Len(s))

(***************************************************************************)
(* Program constants.                                                      *)
(***************************************************************************)
MinContentLen == 50        \* content.length < 50: the file is skipped
MinCodeLen == 20           \* code.length > 20
MaxCodeLen == 2000         \* code.length < 2000
NavMaxLen == 1000          \* contentLower.length < 1000
BrowseCap == 20            \* ORDER BY title LIMIT 20
DefaultLimit == 10         \* limit = 10
ExcerptLen == 300          \* row.content.substring(0, 300)
PerPattern == 3            \* matches.slice(0, 3)

(***************************************************************************)
(* HTML files.  A file is its title element, its first h1 and the text     *)
(* blocks of its tree in document order.  A block says whether it lies in  *)
(* the content container that extractMainContent selects (inContent),      *)
(* whether it matches one of elementsToRemove (removed) and which of the   *)
(* codeSelectors match it (sels).                                          *)
(***************************************************************************)
Block(inC, rem, sels, text) ==
  [inContent |-> inC, removed |-> rem, sels |-> sels, text |-> text]

File(rel, dir, base, readable, hasTitle, title, hasH1, h1, markup, blocks) ==
  [rel |-> rel, dir |-> dir, base |-> base, readable |-> readable,
   hasTitle |-> hasTitle, title |-> title, hasH1 |-> hasH1, h1 |-> h1,
   markup |-> markup, blocks |-> blocks]

\* the text of the raw HTML source, markup apart
RawTexts(f) ==
  <<f.title, f.h1>> \o [i \in 1..Len(f.blocks) |-> f.blocks[i].text]

RECURSIVE SumLen(_)
SumLen(ts) == IF ts = <<>> THEN 0 ELSE TextLen(Head(ts)) + SumLen(Tail(ts))

\* htmlContent.length
RawLen(f) == f.markup + SumLen(RawTexts(f))

navIndicators ==
  << <<"member", "list">>, <<"class", "members">>, <<"file", "list">>,
     <<"directory", "reference">>, <<"class", "list">>, <<"namespace", "list">>,
     <<"function", "index">>, <<"variable", "index">>, <<"index">>,
     <<"contents">>, <<"table", "of", "contents">> >>

isNavigationPage(title, f) ==
  LET titleLower == LowerText(title)
      listOf == \E i \in 1..Len(RawTexts(f)) :
                   IncludesPhrase(LowerText(RawTexts(f)[i]), <<"list", "of">>)
  IN \E k \in 1..Len(navIndicators) :
        \/ IncludesPhrase(titleLower, navIndicators[k])
        \/ (listOf /\ RawLen(f) < NavMaxLen)

\* the text of the content container once elementsToRemove are removed
extractMainContent(f) ==
  LET kept == SelectSeq(f.blocks, LAMBDA b : b.inContent /\ ~b.removed)
  IN cleanText(Flatten([i \in 1..Len(kept) |-> kept[i].text]))

\* the tree that extractMainContent leaves behind: el.remove() changed root
TreeAfterMainContent(f) ==
  SelectSeq(f.blocks, LAMBDA b : ~(b.inContent /\ b.removed))

codeSelectors == <<"pre code", "code", ".highlight", ".codehilite", ".code-block">>

CodeOfSelector(blocks, sel) ==
  LET hit == SelectSeq(blocks, LAMBDA b :
                 /\ sel \in b.sels
                 /\ TextLen(b.text) > MinCodeLen
                 /\ TextLen(b.text) < MaxCodeLen)
  IN [i \in 1..Len(hit) |-> cleanText(hit[i].text)]

\* UniversalDocIndexer.extractCodeExamples(root)
extractCodeExamples(blocks) ==
  Dedup(Flatten([k \in 1..Len(codeSelectors) |->
                   CodeOfSelector(blocks, codeSelectors[k])]))

deadlineTerms ==
  <<"deadline", "render", "job", "worker", "slave", "submit", "plugin",
    "repository", "monitor", "pool", "group", "limit", "task", "frame",
    "script", "python", "maya", "max", "nuke", "houdini", "blender",
    "deadlinecon", "clientutils", "repositoryutils", "jobutils",
    "farm", "queue", "priority", "timeout", "event", "command">>

progTerms ==
  <<"function", "class", "method", "parameter", "return", "import", "module">>

extractKeywords(content, title) ==
  LET allText == LowerText(title \o <<" ">> \o content)
  IN Dedup(SelectSeq(deadlineTerms \o progTerms,
                     LAMBDA term : Includes(allText, term)))

\* section.replace(/-/g, ' ').replace(/_/g, ' ')
DashesToSpaces(t) ==
  [i \in 1..Len(t) |-> IF t[i] \in {"-", "_"} THEN " " ELSE t[i]]

extractSection(title, f) ==
  IF f.dir # <<>> /\ f.dir # <<"manual">> /\ f.dir # <<"html">>
  THEN DashesToSpaces(f.dir)
  ELSE IF \E i \in 2..(Len(title) - 1) : title[i] = "-"
  THEN LET i == CHOOSE j \in 2..(Len(title) - 1) :
                  /\ title[j] = "-"
                  /\ \A k \in 2..(j - 1) : title[k] # "-"
       IN Trim(SubSeq(title, 1, i - 1))
  ELSE <<>>

ResolveTitle(f) ==
  IF f.hasH1 /\ Trim(f.h1) # <<>> THEN cleanText(f.h1)
  ELSE IF f.hasTitle THEN cleanText(f.title)
  ELSE <<>>

DocId(docType, rel) == <<docType, rel>>

\* the DocumentSection that processHtmlFile builds for a file it keeps
BuildDocument(f, docType) ==
  LET title == ResolveTitle(f)
      content == extractMainContent(f)
      keywords == extractKeywords(content, title)
      codeExamples == extractCodeExamples(TreeAfterMainContent(f))
  IN [id |-> DocId(docType, f.rel),
      title |-> IF title # <<>> THEN title ELSE f.base,
      content |-> content \o <<" ">> \o JoinSp(codeExamples),
      section |-> extractSection(title, f),
      docType |-> docType,
      url |-> f.rel,
      keywords |-> keywords,
      codeExamples |-> codeExamples]

\* FileOutcome with the mutation that the test of the content length is left out
FileOutcomeNoGate(f) ==
  IF ~f.readable THEN "error"
  ELSE IF isNavigationPage(ResolveTitle(f), f) THEN "navigation"
  ELSE "document"

\* what processHtmlFile does with a file before it inserts anything
FileOutcome(f) ==
  IF ~f.readable THEN "error"
  ELSE IF isNavigationPage(ResolveTitle(f), f) THEN "navigation"
  ELSE IF TextLen(extractMainContent(f)) < MinContentLen THEN "short"
  ELSE "document"

(***************************************************************************)
(* The corpus on disk: the HTML files that glob finds under the directory  *)
(* of each documentation type.                                             *)
(***************************************************************************)
Prose == <<"Lorem", " ", "Submit", " ", "job">>

SubmitPage ==
  File("um/jobs/submit.html", <<"jobs">>, <<"submit">>, TRUE,
       TRUE, <<"Submit", " ", "job">>, FALSE, <<>>, 120,
       << Block(TRUE, FALSE, {}, Prose \o <<" ">>),
          Block(TRUE, FALSE, {"pre code", "code"},
                <<"import", " ", "os", "  ", "@", "Lorem">>),
          Block(TRUE, TRUE, {}, <<"Index">>) >>)

IndexPage ==
  File("um/jobs/index.html", <<"jobs">>, <<"index">>, TRUE,
       TRUE, <<"Index">>, FALSE, <<>>, 90,
       << Block(TRUE, FALSE, {}, Prose) >>)

PluginPage ==
  File("sr/plugins/plugin.html", <<"plugins">>, <<"plugin">>, TRUE,
       TRUE, <<"Lorem">>, TRUE, <<" ", "Plugin", " ">>, 100,
       << Block(TRUE, FALSE, {}, <<"Lorem", " ", "Plugin", " ", "job", " ", "job">>) >>)

ApiPage ==
  File("py/jobs/api.html", <<"jobs">>, <<"api">>, TRUE,
       FALSE, <<>>, TRUE, <<"Plugin">>, 100,
       << Block(TRUE, FALSE, {}, <<"Lorem", " ", "Submit", " ", "Submit", " ", "Jobs",
                                   " ", "import", " ", "sys", " ", "python",
                                   " ", "Lorem">>),
          Block(TRUE, TRUE, {".highlight"}, <<"import", " ", "os", " ", "Lorem">>) >>)

ShortPage ==
  File("py/jobs/short.html", <<"jobs">>, <<"short">>, TRUE,
       TRUE, <<"Jobs">>, FALSE, <<>>, 60,
       << Block(TRUE, FALSE, {}, <<"Submit", " ", "job">>),
          Block(FALSE, FALSE, {"code"}, <<"import", " ", "os", " ", "Lorem">>) >>)

\* a page without <title> and <h1>: its title becomes its base name; its code
\* element lies outside the content container
UntitledPage ==
  File("um/guide/index.html", <<"guide">>, <<"index">>, TRUE,
       FALSE, <<>>, FALSE, <<>>, 80,
       << Block(TRUE, FALSE, {}, <<"Lorem", " ", "render">>),
          Block(FALSE, FALSE, {"code"}, <<"import", " ", "os", " ", "Lorem">>) >>)

BrokenPage ==
  File("sr/plugins/broken.html", <<"plugins">>, <<"broken">>, FALSE,
       FALSE, <<>>, FALSE, <<>>, 0, <<>>)

Corpus ==
  [t \in DocTypes |->
     CASE t = "user-manual" -> <<SubmitPage, IndexPage, UntitledPage>>
       [] t = "scripting-reference" -> <<BrokenPage, PluginPage>>
       [] t = "python-reference" -> <<ApiPage, ShortPage>>]

TypeOrder == <<"user-manual", "scripting-reference", "python-reference">>

(***************************************************************************)
(* The SQLite store.  documents is the structured table, typeCol the name  *)
(* of its document-type column, rows its rows in rowid order; fts is the   *)
(* FTS5 table documents_fts and ftsRows its index entries; trigger is the  *)
(* AFTER INSERT trigger documents_ai.                                      *)
(***************************************************************************)
IndexerTypeCol == "docType"     \* the column UniversalDocIndexer creates
SearchTypeCol == "doc_type"     \* the column DeadlineDocSearch reads

EmptyDb ==
  [documents |-> FALSE, typeCol |-> None, rows |-> <<>>,
   fts |-> FALSE, ftsRows |-> <<>>, trigger |-> FALSE]

\* JSON.stringify and JSON.parse of a keyword list
JsonStringify(ks) == <<"json", ks>>
JsonParse(s) == s[2]

NextRowid(d) ==
  IF d.rows = <<>> THEN 1
  ELSE 1 + (CHOOSE m \in {d.rows[i].rowid : i \in 1..Len(d.rows)} :
              \A i \in 1..Len(d.rows) : d.rows[i].rowid <= m)

RowOf(d, doc) ==
  [rowid |-> NextRowid(d), id |-> doc.id, title |-> doc.title,
   content |-> doc.content, section |-> doc.section, docType |-> doc.docType,
   url |-> doc.url, keywords |-> JsonStringify(doc.keywords)]

\* the entry the trigger documents_ai writes for a new row
FtsEntryOf(row) ==
  [rowid |-> row.rowid, title |-> row.title, content |-> row.content,
   keywords |-> row.keywords, section |-> row.section, docType |-> row.docType]

Stmt(op, doc) == [op |-> op, doc |-> doc]

\* the five statements of initDatabase, in the order db.serialize queues them
InitStatements ==
  << Stmt("dropDocuments", None), Stmt("dropFts", None),
     Stmt("createDocuments", None), Stmt("createFts", None),
     Stmt("createTrigger", None) >>

Done(d) == [ok |-> TRUE, db |-> d]
Failed(d) == [ok |-> FALSE, db |-> d]

\* INSERT INTO documents (id, title, content, section, docType, url, keywords)
InsertRow(d, doc) ==
  IF ~d.documents \/ d.typeCol # IndexerTypeCol THEN Failed(d)
  ELSE IF \E i \in 1..Len(d.rows) : d.rows[i].id = doc.id THEN Failed(d)
  ELSE IF d.trigger /\ ~d.fts THEN Failed(d)
  ELSE LET row == RowOf(d, doc)
       IN Done([d EXCEPT !.rows = Append(@, row),
                         !.ftsRows = IF d.trigger
                                     THEN Append(@, FtsEntryOf(row)) ELSE @])

\* one statement of the indexer, executed by SQLite in one autocommit step
Exec(d, st) ==
  CASE st.op = "dropDocuments" ->
         Done([d EXCEPT !.documents = FALSE, !.typeCol = None,
                        !.rows = <<>>, !.trigger = FALSE])
    [] st.op = "dropFts" ->
         Done([d EXCEPT !.fts = FALSE, !.ftsRows = <<>>])
    [] st.op = "createDocuments" ->
         IF d.documents THEN Done(d)
         ELSE Done([d EXCEPT !.documents = TRUE, !.typeCol = IndexerTypeCol])
    [] st.op = "createFts" ->
         IF d.fts THEN Done(d) ELSE Done([d EXCEPT !.fts = TRUE])
    [] st.op = "createTrigger" ->
         IF ~d.documents THEN Failed(d)
         ELSE Done([d EXCEPT !.trigger = TRUE])
    [] st.op = "insert" -> InsertRow(d, st.doc)
    [] st.op = "count" -> IF d.documents THEN Done(d) ELSE Failed(d)
    [] st.op = "group" ->
         IF d.documents /\ d.typeCol = IndexerTypeCol THEN Done(d) ELSE Failed(d)

RECURSIVE ExecAll(_, _)
ExecAll(d, sts) ==
  IF sts = <<>> THEN d ELSE ExecAll(Exec(d, Head(sts)).db, Tail(sts))

\* the documents an index run builds when the directories in dirs exist
RunDocuments(dirs) ==
  LET ofType(t) ==
        IF t \notin dirs THEN <<>>
        ELSE LET kept == SelectSeq(Corpus[t], LAMBDA f : FileOutcome(f) = "document")
             IN [i \in 1..Len(kept) |-> BuildDocument(kept[i], t)]
  IN Flatten([k \in 1..Len(TypeOrder) |-> ofType(TypeOrder[k])])

\* the store a complete index run without store failures leaves behind
BuiltStore(dirs) ==
  ExecAll(EmptyDb,
          InitStatements \o
          [i \in 1..Len(RunDocuments(dirs)) |-> Stmt("insert", RunDocuments(dirs)[i])])

\* a store of the same documents whose table names the type column doc_type,
\* as the statements of DeadlineDocSearch expect it
SearchSchemaStore ==
  [BuiltStore(DocTypes) EXCEPT !.typeCol = SearchTypeCol]

(***************************************************************************)
(* DeadlineDocSearch: the query engine over the store.                     *)
(***************************************************************************)
Ok(v) == [ok |-> TRUE, out |-> v]
Err(why) == [ok |-> FALSE, out |-> why]

\* the tokens the FTS5 tokenizer makes of one chunk
ChTokens(c) == IF Kind(c) # "w" \/ c \in {"-", "_"} THEN {} ELSE {Lower(c)}

TypeTokens(t) ==
  CASE t = "user-manual" -> {"user", "manual"}
    [] t = "scripting-reference" -> {"scripting", "reference"}
    [] t = "python-reference" -> {"python", "reference"}
    [] OTHER -> {}

TextTokens(t) == UNION {ChTokens(t[i]) : i \in 1..Len(t)}

\* the tokens of the five indexed columns of an FTS entry
EntryTokens(e) ==
  TextTokens(e.title) \cup TextTokens(e.content) \cup TextTokens(e.section)
    \cup {JsonParse(e.keywords)[i] : i \in 1..Len(JsonParse(e.keywords))}
    \cup TypeTokens(e.docType)

\* the terms of an FTS5 query string; bare words are joined by AND
QueryTokens(q) == TextTokens(q)

\* an FTS5 query with no term is a syntax error
FtsSyntaxOk(q) == QueryTokens(q) # {}

Matches(e, q) == QueryTokens(q) \subseteq EntryTokens(e)

RECURSIVE Occurrences(_, _)
Occurrences(t, toks) ==
  IF t = <<>> THEN 0
  ELSE (IF ChTokens(Head(t)) \cap toks # {} THEN 1 ELSE 0) + Occurrences(Tail(t), toks)

\* the FTS5 rank of an entry: more occurrences of the terms, lower rank
Rank(e, q) ==
  0 - ( Occurrences(e.title, QueryTokens(q)) + Occurrences(e.content, QueryTokens(q))
        + Occurrences(e.section, QueryTokens(q))
        + Cardinality({i \in 1..Len(JsonParse(e.keywords)) :
                         JsonParse(e.keywords)[i] \in QueryTokens(q)}) )

RECURSIVE InsertByKey(_, _)
InsertByKey(s, x) ==
  IF s = <<>> THEN <<x>>
  ELSE IF x.k < Head(s).k THEN <<x>> \o s
  ELSE <<Head(s)>> \o InsertByKey(Tail(s), x)

RECURSIVE SortPairs(_)
SortPairs(s) ==
  IF s = <<>> THEN <<>>
  ELSE InsertByKey(SortPairs(SubSeq(s, 1, Len(s) - 1)), s[Len(s)])

\* ORDER BY: s in ascending order of Key, equal keys in their order in s
OrderBy(s, Key(_)) ==
  LET sorted == SortPairs([i \in 1..Len(s) |-> [k |-> Key(s[i]), v |-> s[i]]])
  IN [i \in 1..Len(s) |-> sorted[i].v]

\* LIMIT n of SQLite: a negative n means no limit
SqlLimit(s, n) == IF n < 0 THEN s ELSE Take(s, n)

\* highlight(documents_fts, 1, '<mark>', '</mark>')
Highlight(content, q) ==
  Flatten([i \in 1..Len(content) |->
             IF ChTokens(content[i]) \cap QueryTokens(q) # {}
             THEN <<"<mark>", content[i], "</mark>">> ELSE <<content[i]>>])

RECURSIVE Substring(_, _)
\* String.prototype.substring(0, n), cut at a chunk boundary
Substring(t, n) ==
  IF t = <<>> \/ ChLen(Head(t)) > n THEN <<>>
  ELSE <<Head(t)>> \o Substring(Tail(t), n - ChLen(Head(t)))

\* the matches of one code pattern in content, in order; the patterns are
\* DeadlineCon.x(...), import x, def f(...):, class C...:, x = DeadlineCon.y
IsConCall(c) == c \in {"DeadlineCon.Jobs.GetJobs()"}
IsDefHead(c) == c \in {"f():"}
IsClassHead(c) == c \in {"C:"}
IsConRef(c) == c \in {"DeadlineCon.Jobs"}

PatternMatches(t, k) ==
  LET at(i) ==
        CASE k = 1 -> IF IsConCall(t[i]) THEN <<t[i]>> ELSE <<>>
          [] k = 2 -> IF /\ t[i] = "import" /\ i + 2 <= Len(t)
                         /\ Kind(t[i + 1]) = "s" /\ Kind(t[i + 2]) = "w"
                      THEN SubSeq(t, i, i + 2) ELSE <<>>
          [] k = 3 -> IF /\ t[i] = "def" /\ i + 2 <= Len(t)
                         /\ Kind(t[i + 1]) = "s" /\ IsDefHead(t[i + 2])
                      THEN SubSeq(t, i, i + 2) ELSE <<>>
          [] k = 4 -> IF /\ t[i] = "class" /\ i + 2 <= Len(t)
                         /\ Kind(t[i + 1]) = "s" /\ IsClassHead(t[i + 2])
                      THEN SubSeq(t, i, i + 2) ELSE <<>>
          [] k = 5 -> IF /\ Kind(t[i]) = "w" /\ i + 2 <= Len(t)
                         /\ t[i + 1] = "=" /\ IsConRef(t[i + 2])
                      THEN SubSeq(t, i, i + 2) ELSE <<>>
      all == [i \in 1..Len(t) |-> at(i)]
  IN SelectSeq(all, LAMBDA m : m # <<>>)

NumPatterns == 5

\* DeadlineDocSearch.extractCodeExamples(content)
searchExtractCodeExamples(content) ==
  Dedup(Flatten([k \in 1..NumPatterns |->
                   Take(PatternMatches(content, k), PerPattern)]))

\* the value of the property doc_type of a row object that SELECT returns
RowDocType(d, row) == IF d.typeCol = SearchTypeCol THEN row.docType ELSE Undefined

\* row.section || '': the empty string for a section that is empty
OrEmpty(t) == IF t = <<>> THEN <<>> ELSE t

\* the DocumentSection that the three row mappings of search.ts build
RowToDocument(d, row) ==
  [id |-> row.id, title |-> row.title, content |-> row.content,
   section |-> OrEmpty(row.section), docType |-> RowDocType(d, row),
   url |-> row.url, keywords |-> JsonParse(row.keywords),
   codeExamples |-> searchExtractCodeExamples(row.content)]

RowById(d, rowid) ==
  CHOOSE r \in {d.rows[i] : i \in 1..Len(d.rows)} : r.rowid = rowid

HasRow(d, rowid) == \E i \in 1..Len(d.rows) : d.rows[i].rowid = rowid

\* if (docType): a filter is given when the argument is a non-empty string
Given(docType) == docType # None /\ docType # ""

\* the WHERE clause with the mutation that the type filter is left out
SearchWhereUnfiltered(d, e, query, docType) ==
  /\ HasRow(d, e.rowid)
  /\ Matches(e, query)

\* JOIN documents d ON d.rowid = documents_fts.rowid
\* WHERE documents_fts MATCH ? [AND d.doc_type = ?]
SearchWhere(d, e, query, docType) ==
  /\ HasRow(d, e.rowid)
  /\ Matches(e, query)
  /\ Given(docType) => RowById(d, e.rowid).docType = docType

searchDocumentation(d, query, docType, limit) ==
  IF ~d.fts \/ ~d.documents \/ d.typeCol # SearchTypeCol THEN Err("SQLITE_ERROR")
  ELSE IF ~FtsSyntaxOk(query) THEN Err("fts5: syntax error")
  ELSE
    LET joined == SelectSeq(d.ftsRows, LAMBDA e : SearchWhere(d, e, query, docType))
        ranked == OrderBy(joined, LAMBDA e : Rank(e, query))
        hits == SqlLimit(ranked, limit)
    IN Ok([i \in 1..Len(hits) |->
             LET row == RowById(d, hits[i].rowid)
                 hl == Highlight(row.content, query)
             IN [section |-> RowToDocument(d, row),
                 score |-> Rank(hits[i], query),
                 matches |-> <<IF hl # <<>> THEN hl
                               ELSE Substring(row.content, ExcerptLen)>>]])

\* the result is <<document>>, or <<>> for null
getDocumentById(d, id) ==
  IF ~d.documents THEN Err("SQLITE_ERROR")
  ELSE IF \E i \in 1..Len(d.rows) : d.rows[i].id = id
  THEN Ok(<<RowToDocument(d, CHOOSE r \in {d.rows[i] : i \in 1..Len(d.rows)} : r.id = id)>>)
  ELSE Ok(<<>>)

\* col LIKE '%s%': SQLite's LIKE ignores the case of ASCII letters
Like(col, s) ==
  s = <<>> \/ IncludesPhrase(LowerText(col), LowerText(s))

\* the order of two chunks in the BINARY collation
ChOrd(c) ==
  CASE c = " " -> 1
    [] c = "  " -> 2
    [] c = "-" -> 3
    [] c = "Index" -> 4
    [] c = "Jobs" -> 5
    [] c = "Lorem" -> 6
    [] c = "Plugin" -> 7
    [] c = "Submit" -> 8
    [] OTHER -> 9

RECURSIVE TextLess(_, _)
TextLess(a, b) ==
  IF b = <<>> THEN FALSE
  ELSE IF a = <<>> THEN TRUE
  ELSE IF ChOrd(Head(a)) # ChOrd(Head(b)) THEN ChOrd(Head(a)) < ChOrd(Head(b))
  ELSE TextLess(Tail(a), Tail(b))

\* the place of a title among the titles of rows, in the BINARY collation
TitleOrd(rows, title) ==
  Cardinality({rows[i].title : i \in {j \in 1..Len(rows) : TextLess(rows[j].title, title)}})

\* WHERE section LIKE ? OR title LIKE ? AND doc_type = ?: AND binds tighter
BrowseWhere(row, section, docType) ==
  \/ Like(row.section, section)
  \/ (Like(row.title, section) /\ (Given(docType) => row.docType = docType))

browseSections(d, section, docType) ==
  IF ~d.documents THEN Err("SQLITE_ERROR")
  ELSE IF Given(docType) /\ d.typeCol # SearchTypeCol THEN Err("SQLITE_ERROR")
  ELSE
    LET hit == SelectSeq(d.rows, LAMBDA r : BrowseWhere(r, section, docType))
        ordered == OrderBy(hit, LAMBDA r : TitleOrd(hit, r.title))
        rows == SqlLimit(ordered, BrowseCap)
    IN Ok([i \in 1..Len(rows) |-> RowToDocument(d, rows[i])])

getStats(d) ==
  IF ~d.documents THEN Err("SQLITE_ERROR")
  ELSE IF d.typeCol # SearchTypeCol THEN Err("SQLITE_ERROR")
  ELSE
    LET types == {d.rows[i].docType : i \in 1..Len(d.rows)}
    IN Ok([total |-> Len(d.rows),
           byType |-> [t \in types |->
                         Cardinality({i \in 1..Len(d.rows) : d.rows[i].docType = t})]])

(***************************************************************************)
(* RemoteDeadlineSearch: the curated backend.  Scores are in hundredths    *)
(* (0.9 is 90).  The long literal texts are one chunk each.                *)
(***************************************************************************)
PythonReferenceUrl == <<"https://docs.thinkboxsoftware.com/products/deadline/10.4/3_Python%20Reference/">>
ScriptingReferenceUrl == <<"https://docs.thinkboxsoftware.com/products/deadline/10.4/2_Scripting%20Reference/">>
UserManualUrl == <<"https://docs.thinkboxsoftware.com/products/deadline/10.4/1_User%20Manual/">>
DocsRootUrl == <<"https://docs.thinkboxsoftware.com/products/deadline/10.4/">>

baseUrls(docType) ==
  CASE docType = "user-manual" -> UserManualUrl
    [] docType = "scripting-reference" -> ScriptingReferenceUrl
    [] docType = "python-reference" -> PythonReferenceUrl
    [] OTHER -> DocsRootUrl

JobSubmissionResult ==
  [section |-> [id |-> <<"python-reference", "job-submission">>,
                title |-> <<"Job", " ", "Submission", " ", "with", " ", "Python">>,
                content |-> <<"To submit jobs to Deadline using Python ...">>,
                url |-> PythonReferenceUrl,
                docType |-> "python-reference",
                section |-> <<"Job", " ", "Submission">>,
                codeExamples |-> << <<"import Deadline.DeadlineConnect as Connect ... SubmitJob">> >>,
                keywords |-> <<"submit", "job", "python", "DeadlineCon">>],
   score |-> 90,
   matches |-> << <<"Job submission using Python API">> >>]

DeadlineConResult ==
  [section |-> [id |-> <<"python-reference", "deadlinecon">>,
                title |-> <<"DeadlineCon", " ", "Connection">>,
                content |-> <<"DeadlineCon is the main class ...">>,
                url |-> PythonReferenceUrl,
                docType |-> "python-reference",
                section |-> <<"DeadlineCon">>,
                codeExamples |-> << <<"import Deadline.DeadlineConnect as Connect ... DeadlineCon">> >>,
                keywords |-> <<"DeadlineCon", "connection", "web service">>],
   score |-> 95,
   matches |-> << <<"DeadlineCon connection examples">> >>]

PluginDevelopmentResult ==
  [section |-> [id |-> <<"scripting-reference", "plugin-development">>,
                title |-> <<"Plugin", " ", "Development">>,
                content |-> <<"Deadline plugins are Python scripts ...">>,
                url |-> ScriptingReferenceUrl,
                docType |-> "scripting-reference",
                section |-> <<"Plugin", " ", "Development">>,
                codeExamples |-> <<>>,
                keywords |-> <<"plugin", "development", "scripting">>],
   score |-> 85,
   matches |-> << <<"Plugin development guide">> >>]

GeneralHelpResult ==
  [section |-> [id |-> <<"general", "help">>,
                title |-> <<"Deadline", " ", "Documentation", " ", "Help">>,
                content |-> <<"I can help you with Deadline documentation queries ...">>,
                url |-> DocsRootUrl,
                docType |-> "user-manual",
                section |-> <<"General", " ", "Help">>,
                codeExamples |-> <<>>,
                keywords |-> <<"help", "documentation", "deadline">>],
   score |-> 50,
   matches |-> << <<"General documentation help">> >>]

getCuratedResults(query, docType) ==
  LET lowerQuery == LowerText(query)
      results ==
        (IF Includes(lowerQuery, "submit") /\ Includes(lowerQuery, "job")
         THEN <<JobSubmissionResult>> ELSE <<>>)
        \o (IF Includes(lowerQuery, "deadlinecon") \/ Includes(lowerQuery, "connection")
            THEN <<DeadlineConResult>> ELSE <<>>)
        \o (IF /\ Includes(lowerQuery, "plugin")
               /\ (Includes(lowerQuery, "create") \/ Includes(lowerQuery, "develop"))
            THEN <<PluginDevelopmentResult>> ELSE <<>>)
  IN IF results = <<>> THEN <<GeneralHelpResult>> ELSE results

\* Array.prototype.slice(0, n): a negative n counts from the end
Slice(s, n) ==
  IF n < 0 THEN Take(s, IF Len(s) + n > 0 THEN Len(s) + n ELSE 0) ELSE Take(s, n)

remoteSearchDocumentation(query, docType, limit) ==
  Ok(Slice(getCuratedResults(query, docType), limit))

\* id.split(':'): the type is the first part, the section the rest
remoteGetDocumentById(id) ==
  LET docType == IF id = <<>> THEN "" ELSE Head(id)
      section == IF id = <<>> THEN <<>> ELSE Tail(id)
  IN Ok(<<[id |-> id,
         title |-> <<"Remote", " ", "Documentation:", " ">> \o section,
         content |-> <<"This content is available in the online Deadline documentation. Please visit:", " ">>
                       \o baseUrls(docType),
         url |-> baseUrls(docType),
         docType |-> docType,
         section |-> section,
         codeExamples |-> <<>>,
         keywords |-> <<>>]>>)

JobsSection ==
  [id |-> <<"user-manual", "jobs">>,
   title |-> <<"Jobs", " ", "Overview">>,
   content |-> <<"Jobs are the fundamental unit of work in Deadline ...">>,
   url |-> UserManualUrl,
   docType |-> "user-manual",
   section |-> <<"Jobs">>,
   codeExamples |-> <<>>,
   keywords |-> <<"jobs", "submission", "management">>]

getCommonSections(section, docType) ==
  IF Includes(LowerText(section), "job") THEN <<JobsSection>> ELSE <<>>

getDocumentsBySection(section, docType) == Ok(getCommonSections(section, docType))

(***************************************************************************)
(* getCodeExamples of the two backends.                                    *)
(***************************************************************************)
CodeMinContent == 100    \* AND LENGTH(d.content) > 100
OverFetch == 2           \* LIMIT ? is bound to limit * 2

\* the alternatives of the code query; FTS5 matches without regard to case
codeTerms == {"deadlinecon", "python", "script", "function", "class", "import"}

\* `${query} AND (DeadlineCon OR python OR script OR function OR class OR import)`
CodeMatches(e, query) ==
  /\ Matches(e, query)
  /\ EntryTokens(e) \cap codeTerms # {}

\* the rank of an entry for the code query: the occurrences of all its terms
CodeRank(e, query) ==
  LET toks == QueryTokens(query) \cup codeTerms
  IN 0 - ( Occurrences(e.title, toks) + Occurrences(e.content, toks)
           + Occurrences(e.section, toks)
           + Cardinality({i \in 1..Len(JsonParse(e.keywords)) :
                            JsonParse(e.keywords)[i] \in toks})
           + Cardinality(TypeTokens(e.docType) \cap toks) )

\* CodeCandidates with the mutation that ORDER BY rank is left out
CodeCandidatesUnordered(d, query, limit) ==
  LET joined == SelectSeq(d.ftsRows, LAMBDA e :
                  /\ HasRow(d, e.rowid)
                  /\ CodeMatches(e, query)
                  /\ TextLen(RowById(d, e.rowid).content) > CodeMinContent)
      hits == SqlLimit(joined, limit * OverFetch)
  IN [i \in 1..Len(hits) |-> RowById(d, hits[i].rowid)]

\* the rows the statement of getCodeExamples returns, best rank first
CodeCandidates(d, query, limit) ==
  LET joined == SelectSeq(d.ftsRows, LAMBDA e :
                  /\ HasRow(d, e.rowid)
                  /\ CodeMatches(e, query)
                  /\ TextLen(RowById(d, e.rowid).content) > CodeMinContent)
      ranked == OrderBy(joined, LAMBDA e : CodeRank(e, query))
      hits == SqlLimit(ranked, limit * OverFetch)
  IN [i \in 1..Len(hits) |-> RowById(d, hits[i].rowid)]

\* for (const row of rows) { examples.push(...); if (examples.length >= limit) break; }
RECURSIVE CodeLoop(_, _, _)
CodeLoop(rows, examples, limit) ==
  IF rows = <<>> THEN examples
  ELSE LET pushed == examples \o searchExtractCodeExamples(Head(rows).content)
       IN IF Len(pushed) >= limit THEN pushed
          ELSE CodeLoop(Tail(rows), pushed, limit)

getCodeExamples(d, query, limit) ==
  IF ~d.fts \/ ~d.documents THEN Err("SQLITE_ERROR")
  ELSE IF ~FtsSyntaxOk(query) THEN Err("fts5: syntax error")
  ELSE Ok(Slice(CodeLoop(CodeCandidates(d, query, limit), <<>>, limit), limit))

ConnectExample == <<"import Deadline.DeadlineConnect as Connect ...">>
SubmitExample == <<"JobInfo = { ... } newJob = deadline.Jobs.SubmitJob(JobInfo, PluginInfo)">>

getCommonCodeExamples(query) ==
  LET lowerQuery == LowerText(query)
  IN (IF Includes(lowerQuery, "deadlinecon") \/ Includes(lowerQuery, "connect")
      THEN <<ConnectExample>> ELSE <<>>)
     \o (IF Includes(lowerQuery, "submit") \/ Includes(lowerQuery, "job")
         THEN <<SubmitExample>> ELSE <<>>)

remoteGetCodeExamples(query, limit) == Ok(Slice(getCommonCodeExamples(query), limit))

(***************************************************************************)
(* ConfigManager.                                                          *)
(***************************************************************************)
\* every required directory exists and is a directory
validateLocalDocs(dirs) == \A t \in DocTypes : t \in dirs

getConfig(config, docsPathSet, dirs) ==
  IF config # "null" THEN config
  ELSE IF docsPathSet /\ validateLocalDocs(dirs) THEN "local"
  ELSE "remote"

\* this.config?.docsPath !== 'remote'
isUsingLocalDocs(config) == config # "remote"

(***************************************************************************)
(* The MCP server: main and the CallToolRequestSchema handler, which       *)
(* serve every tool from the one DeadlineDocSearch instance.               *)
(***************************************************************************)
McpError(code) == [ok |-> FALSE, out |-> code]

\* !query, !id, !section: a missing argument or the empty string
Falsy(arg) == arg = <<>>

search_deadline_docs(d, query, doc_type, limit) ==
  IF Falsy(query) THEN McpError("InvalidParams")
  ELSE LET results == searchDocumentation(d, query, doc_type, limit)
       IN IF ~results.ok THEN McpError("InternalError")
          ELSE IF results.out = <<>> THEN Ok([text |-> "No results found", results |-> <<>>])
          ELSE IF ~getStats(d).ok THEN McpError("InternalError")
          ELSE Ok([text |-> "Search Results", results |-> results.out])

get_deadline_document(d, id) ==
  IF Falsy(id) THEN McpError("InvalidParams")
  ELSE LET document == getDocumentById(d, id)
       IN IF ~document.ok THEN McpError("InternalError")
          ELSE IF document.out = <<>>
          THEN Ok([text |-> "not found", results |-> <<>>])
          ELSE Ok([text |-> "Document", results |-> document.out])

browse_deadline_sections(d, section, doc_type) ==
  IF Falsy(section) THEN McpError("InvalidParams")
  ELSE LET documents == browseSections(d, section, doc_type)
       IN IF ~documents.ok THEN McpError("InternalError")
          ELSE IF documents.out = <<>>
          THEN Ok([text |-> "No documents found", results |-> <<>>])
          ELSE Ok([text |-> "Deadline Documentation", results |-> documents.out])

(***************************************************************************)
(* The indexer process: the CLI run of UniversalDocIndexer.                *)
(***************************************************************************)
MaxRuns == 2        \* index runs in one behaviour

Running == {"type", "file", "insert", "stats", "count", "group"}

NumTypes == Len(TypeOrder)

CurType == TypeOrder[ix.t]

\* the end of indexDocumentationType: the next type, or showIndexStats
AdvanceType(x) ==
  IF x.t < NumTypes THEN [x EXCEPT !.pc = "type", !.t = @ + 1]
  ELSE [x EXCEPT !.pc = "stats"]

\* the end of one iteration of the loop over htmlFiles
AdvanceFile(x) ==
  IF x.f < Len(Corpus[TypeOrder[x.t]]) THEN [x EXCEPT !.pc = "file", !.f = @ + 1]
  ELSE AdvanceType(x)

\* new UniversalDocIndexer(config); await indexer.initialize(): initDatabase
\* queues its five statements and resolves at once
Initialize ==
  /\ ix.pc \notin Running
  /\ ix.runs < MaxRuns
  /\ queue' = InitStatements
  /\ ix' = [pc |-> "type", t |-> 1, f |-> 0, processed |-> 0, indexed |-> 0,
            runs |-> ix.runs + 1, prev |-> db, failed |-> FALSE]
  /\ UNCHANGED <<db, fsys, env, srv, cfg, faults, res>>

\* indexDocumentationType up to its loop: fs.access, glob
IndexDocumentationType ==
  /\ ix.pc = "type"
  /\ ix' = IF CurType \notin fsys \/ Corpus[CurType] = <<>>
           THEN AdvanceType(ix)
           ELSE [ix EXCEPT !.pc = "file", !.f = 1, !.processed = 0, !.indexed = 0]
  /\ UNCHANGED <<db, queue, fsys, env, srv, cfg, faults, res>>

\* ProcessHtmlFile with the mutation that an unreadable file ends the loop
\* over the files of its type
ProcessHtmlFileStops ==
  /\ ix.pc = "file"
  /\ LET f == Corpus[CurType][ix.f]
         x == [ix EXCEPT !.processed = @ + 1]
     IN IF FileOutcome(f) = "document"
        THEN /\ queue' = Append(queue, Stmt("insert", BuildDocument(f, CurType)))
             /\ ix' = [x EXCEPT !.pc = "insert"]
        ELSE /\ queue' = queue
             /\ ix' = IF FileOutcome(f) = "error" THEN AdvanceType(x)
                      ELSE AdvanceFile(x)
  /\ UNCHANGED <<db, fsys, env, srv, cfg, faults, res>>

\* processHtmlFile up to its await of insertDocument
ProcessHtmlFile ==
  /\ ix.pc = "file"
  /\ LET f == Corpus[CurType][ix.f]
         x == [ix EXCEPT !.processed = @ + 1]
     IN IF FileOutcome(f) = "document"
        THEN /\ queue' = Append(queue, Stmt("insert", BuildDocument(f, CurType)))
             /\ ix' = [x EXCEPT !.pc = "insert"]
        ELSE /\ queue' = queue
             /\ ix' = AdvanceFile(x)
  /\ UNCHANGED <<db, fsys, env, srv, cfg, faults, res>>

\* showIndexStats: the count query is queued
ShowIndexStats ==
  /\ ix.pc = "stats"
  /\ queue' = Append(queue, Stmt("count", None))
  /\ ix' = [ix EXCEPT !.pc = "count"]
  /\ UNCHANGED <<db, fsys, env, srv, cfg, faults, res>>

\* what the indexer does when sqlite3 reports the outcome of a statement
Callback(x, st, ok) ==
  CASE st.op = "insert" ->
         \* resolve: indexed++; reject: caught by processHtmlFile, return false
         [ix |-> AdvanceFile(IF ok THEN [x EXCEPT !.indexed = @ + 1]
                             ELSE [x EXCEPT !.failed = TRUE]),
          queue |-> Tail(queue)]
    [] st.op = "count" ->
         \* on an error the promise of showIndexStats is never settled
         IF ok THEN [ix |-> [x EXCEPT !.pc = "group"],
                     queue |-> Append(Tail(queue), Stmt("group", None))]
         ELSE [ix |-> [x EXCEPT !.pc = "hung"], queue |-> Tail(queue)]
    [] st.op = "group" ->
         [ix |-> [x EXCEPT !.pc = "done"], queue |-> Tail(queue)]
    [] OTHER ->
         \* a statement of initDatabase has no callback: its error is an
         \* unhandled 'error' event, which ends the process
         IF ok THEN [ix |-> x, queue |-> Tail(queue)]
         ELSE [ix |-> [x EXCEPT !.pc = "crashed", !.failed = TRUE], queue |-> <<>>]

\* sqlite3 executes the statement at the head of the queue
ExecStatement ==
  /\ queue # <<>>
  /\ LET r == Exec(db, Head(queue))
         c == Callback(ix, Head(queue), r.ok)
     IN /\ db' = r.db
        /\ ix' = c.ix
        /\ queue' = c.queue
  /\ UNCHANGED <<fsys, env, srv, cfg, faults, res>>

\* the statement at the head of the queue fails in the storage layer
\* (SQLITE_BUSY, SQLITE_FULL, SQLITE_IOERR) and changes nothing
FailStatement ==
  /\ queue # <<>>
  /\ faults < MaxFaults
  /\ LET c == Callback(ix, Head(queue), FALSE)
     IN /\ ix' = c.ix
        /\ queue' = c.queue
  /\ faults' = faults + 1
  /\ UNCHANGED <<db, fsys, env, srv, cfg, res>>

(***************************************************************************)
(* The server process.                                                     *)
(***************************************************************************)
Busy == ix.pc \in Running

Outcome(op, q, dt, lim, r) ==
  [op |-> op, q |-> q, dt |-> dt, lim |-> lim, ok |-> r.ok, out |-> r.out,
   busy |-> Busy]

NoOutcome ==
  [op |-> "none", q |-> <<>>, dt |-> None, lim |-> 0, ok |-> TRUE, out |-> <<>>,
   busy |-> FALSE]

\* the caller takes the outcome of its call; it makes one call at a time
Return ==
  /\ res # NoOutcome
  /\ res' = NoOutcome
  /\ UNCHANGED <<db, queue, ix, fsys, env, srv, cfg, faults>>

\* main: the server runs if getStats succeeds and exits otherwise
Main ==
  /\ srv = "init"
  /\ srv' = IF getStats(db).ok THEN "running" ELSE "exited"
  /\ UNCHANGED <<db, queue, ix, fsys, env, cfg, faults, res>>

ToolQueries == {<<>>, <<"submit">>}
ToolFilters == {None, "python-reference"}
ToolIds == {<<>>, DocId("user-manual", SubmitPage.rel)}
ToolSections == {<<"job">>}

CallSearchTool ==
  /\ srv = "running"
  /\ res = NoOutcome
  /\ \E q \in ToolQueries :
       res' = Outcome("tool.search", q, None, DefaultLimit,
                      search_deadline_docs(db, q, None, DefaultLimit))
  /\ UNCHANGED <<db, queue, ix, fsys, env, srv, cfg, faults>>

CallDocumentTool ==
  /\ srv = "running"
  /\ res = NoOutcome
  /\ \E id \in ToolIds :
       res' = Outcome("tool.document", id, None, 0, get_deadline_document(db, id))
  /\ UNCHANGED <<db, queue, ix, fsys, env, srv, cfg, faults>>

CallBrowseTool ==
  /\ srv = "running"
  /\ res = NoOutcome
  /\ \E sec \in ToolSections, dt \in ToolFilters :
       res' = Outcome("tool.browse", sec, dt, 0, browse_deadline_sections(db, sec, dt))
  /\ UNCHANGED <<db, queue, ix, fsys, env, srv, cfg, faults>>

(***************************************************************************)
(* The system: an indexer run and a server on one database file.           *)
(***************************************************************************)
InitIx ==
  [pc |-> "cli", t |-> 1, f |-> 0, processed |-> 0, indexed |-> 0, runs |-> 0,
   prev |-> EmptyDb, failed |-> FALSE]

Init ==
  /\ db \in {EmptyDb, SearchSchemaStore}
  /\ queue = <<>>
  /\ ix = InitIx
  /\ fsys \in {DocTypes, DocTypes \ {"scripting-reference"}}
  /\ env \in BOOLEAN
  /\ srv = "init"
  /\ cfg = "null"
  /\ faults = 0
  /\ res = NoOutcome

Next ==
  \/ Initialize
  \/ IndexDocumentationType
  \/ ProcessHtmlFile
  \/ ShowIndexStats
  \/ ExecStatement
  \/ FailStatement
  \/ Main
  \/ CallSearchTool
  \/ CallDocumentTool
  \/ CallBrowseTool
  \/ Return

Spec == Init /\ [][Next]_vars

\* an index run on its own: the steps of the CLI process and of its sqlite3
\* handle, with no server beside it
NextRun ==
  \/ Initialize
  \/ IndexDocumentationType
  \/ ProcessHtmlFile
  \/ ShowIndexStats
  \/ ExecStatement
  \/ FailStatement

\* the event loop runs every continuation of the index run that is ready and
\* sqlite3 executes every statement it has queued; the environment need not
\* fail a statement, and nobody need start a run.  ProcessHtmlFile is
\* enabled exactly when ix.pc = "file", and its weak fairness is written out
\* with that condition.
SpecLive ==
  /\ Init
  /\ [][NextRun]_vars
  /\ WF_vars(IndexDocumentationType \/ ShowIndexStats \/ ExecStatement)
  /\ (<>[](ix.pc = "file") => []<><<ProcessHtmlFile>>_vars)

(***************************************************************************)
(* The programming interface: calls of the two backends and of the         *)
(* ConfigManager on a store that an index run has left behind.             *)
(***************************************************************************)
Stores ==
  {EmptyDb, SearchSchemaStore, BuiltStore(DocTypes),
   BuiltStore(DocTypes \ {"scripting-reference"})}

Queries ==
  {<<>>, <<"submit">>, <<"job">>, <<"submit", " ", "job">>,
   <<"plugin", " ", "create">>, <<"deadlinecon">>,
   <<"deadlinecon", " ", "plugin", " ", "create">>}

Filters == {None} \cup DocTypes

Limits == (0 - 1)..MaxLimit

Sections == {<<>>, <<"job">>, <<"plugin">>, <<"Submit">>}

Ids ==
  {DocId(t, Corpus[t][i].rel) : t \in DocTypes, i \in 1..2}
    \cup {<<"general", "help">>, <<"nosuchid">>}

Search ==
  \E q \in Queries, dt \in Filters, lim \in Limits :
    /\ res = NoOutcome
    /\ res' = Outcome("search", q, dt, lim, searchDocumentation(db, q, dt, lim))
    /\ UNCHANGED <<db, queue, ix, fsys, env, srv, cfg, faults>>

GetDocument ==
  \E id \in Ids :
    /\ res = NoOutcome
    /\ res' = Outcome("getById", id, None, 0, getDocumentById(db, id))
    /\ UNCHANGED <<db, queue, ix, fsys, env, srv, cfg, faults>>

Browse ==
  \E sec \in Sections, dt \in Filters :
    /\ res = NoOutcome
    /\ res' = Outcome("browse", sec, dt, 0, browseSections(db, sec, dt))
    /\ UNCHANGED <<db, queue, ix, fsys, env, srv, cfg, faults>>

Stats ==
  /\ res = NoOutcome
  /\ res' = Outcome("stats", <<>>, None, 0, getStats(db))
  /\ UNCHANGED <<db, queue, ix, fsys, env, srv, cfg, faults>>

RemoteSearch ==
  \E q \in Queries, dt \in Filters, lim \in Limits :
    /\ res = NoOutcome
    /\ res' = Outcome("remote.search", q, dt, lim, remoteSearchDocumentation(q, dt, lim))
    /\ UNCHANGED <<db, queue, ix, fsys, env, srv, cfg, faults>>

RemoteGetDocument ==
  \E id \in Ids :
    /\ res = NoOutcome
    /\ res' = Outcome("remote.getById", id, None, 0, remoteGetDocumentById(id))
    /\ UNCHANGED <<db, queue, ix, fsys, env, srv, cfg, faults>>

RemoteBrowse ==
  \E sec \in Sections, dt \in Filters :
    /\ res = NoOutcome
    /\ res' = Outcome("remote.browse", sec, dt, 0, getDocumentsBySection(sec, dt))
    /\ UNCHANGED <<db, queue, ix, fsys, env, srv, cfg, faults>>

GetCodeExamples ==
  \E q \in Queries, lim \in Limits :
    /\ res = NoOutcome
    /\ res' = Outcome("codeExamples", q, None, lim, getCodeExamples(db, q, lim))
    /\ UNCHANGED <<db, queue, ix, fsys, env, srv, cfg, faults>>

RemoteGetCodeExamples ==
  \E q \in Queries, lim \in Limits :
    /\ res = NoOutcome
    /\ res' = Outcome("remote.codeExamples", q, None, lim, remoteGetCodeExamples(q, lim))
    /\ UNCHANGED <<db, queue, ix, fsys, env, srv, cfg, faults>>

\* a first call of ConfigManager.getConfig; later calls return this.config
GetConfig ==
  /\ cfg' = getConfig(cfg, env, fsys)
  /\ cfg' # cfg
  /\ UNCHANGED <<db, queue, ix, fsys, env, srv, faults, res>>

\* a call of ConfigManager.isUsingLocalDocs, before or after getConfig; the
\* outcome records this.config as it is at the call
IsUsingLocalDocs ==
  /\ res = NoOutcome
  /\ res' = Outcome("isUsingLocalDocs", cfg, None, 0, Ok(isUsingLocalDocs(cfg)))
  /\ UNCHANGED <<db, queue, ix, fsys, env, srv, cfg, faults>>

InitApi ==
  /\ db \in Stores
  /\ queue = <<>>
  /\ ix = InitIx
  /\ fsys \in {DocTypes, DocTypes \ {"scripting-reference"}}
  /\ env \in BOOLEAN
  /\ srv = "init"
  /\ cfg = "null"
  /\ faults = 0
  /\ res = NoOutcome

NextApi ==
  \/ Search
  \/ GetDocument
  \/ Browse
  \/ Stats
  \/ RemoteSearch
  \/ RemoteGetDocument
  \/ RemoteBrowse
  \/ GetCodeExamples
  \/ RemoteGetCodeExamples
  \/ GetConfig
  \/ IsUsingLocalDocs
  \/ Return

SpecApi == InitApi /\ [][NextApi]_vars

(***************************************************************************)
(* The text functions of the indexer on their own: cleanText applied to    *)
(* any string, extractCodeExamples applied to any list of code elements.   *)
(***************************************************************************)
MaxTextLen == 5     \* chunks of a string passed to cleanText

\* strings of word characters, spaces, runs of two white-space characters
\* (a tab and a newline, say) and characters outside the safe set
Texts == UNION {[1..n -> {"a", " ", "  ", "@"}] : n \in 0..MaxTextLen}

CleanText ==
  \E t \in Texts :
    /\ res = NoOutcome
    /\ res' = Outcome("cleanText", t, None, 0, Ok(cleanText(t)))
    /\ UNCHANGED <<db, queue, ix, fsys, env, srv, cfg, faults>>

MaxElements == 2    \* code elements of a tree passed to extractCodeExamples

\* code elements by the length of their text before and after cleanText:
\* 72 and 70, 20 and 20, 26 and 9, 2000 and 1999; the first is found by
\* two selectors
CodeElements ==
  { Block(TRUE, FALSE, {"pre code", "code"}, <<"import", " ", "os", "  ", "@", "Lorem">>),
    Block(TRUE, FALSE, {"code"}, <<"import", " ", "Dolor">>),
    Block(TRUE, FALSE, {".highlight"}, <<"import", " ", "os", " ", "################">>),
    Block(TRUE, FALSE, {".code-block"}, <<"Ipsum", "@", "import", " ", "os">>) }

ExtractCodeExamples ==
  \E n \in 0..MaxElements :
    \E blocks \in [1..n -> CodeElements] :
      /\ res = NoOutcome
      /\ res' = Outcome("extractCodeExamples", blocks, None, 0,
                        Ok(extractCodeExamples(blocks)))
      /\ UNCHANGED <<db, queue, ix, fsys, env, srv, cfg, faults>>

InitText ==
  /\ db = EmptyDb
  /\ queue = <<>>
  /\ ix = InitIx
  /\ fsys = DocTypes
  /\ env = FALSE
  /\ srv = "init"
  /\ cfg = "null"
  /\ faults = 0
  /\ res = NoOutcome

NextText ==
  \/ CleanText
  \/ ExtractCodeExamples
  \/ Return

SpecText == InitText /\ [][NextText]_vars


(***************************************************************************)
(* Properties of the filters, the limits and the lookup by id.             *)
(***************************************************************************)
DocTypesOf(docs) == {docs[i].docType : i \in 1..Len(docs)}

ResultTypesOf(results) == {results[i].section.docType : i \in 1..Len(results)}

\* C1: when the local backend's browse is given a documentation type, every
\* document it returns has that type, whether the row matched the pattern on
\* its section or on its title.
C1_BrowseHonoursFilter ==
  (res.op = "browse" /\ res.ok /\ Given(res.dt))
    => DocTypesOf(res.out) \subseteq {res.dt}

\* C2: when the local backend's search is given a documentation type, every
\* result it returns wraps a document of that type.
C2_SearchHonoursFilter ==
  (res.op = "search" /\ res.ok /\ Given(res.dt))
    => ResultTypesOf(res.out) \subseteq {res.dt}

\* a filtered search that returns a result although the same search without
\* the filter finds documents of another type as well
C2_Witness ==
  /\ res.op = "search" /\ res.ok /\ Given(res.dt)
  /\ res.out # <<>>
  /\ LET all == searchDocumentation(db, res.q, None, MaxLimit)
     IN all.ok /\ ResultTypesOf(all.out) \ {res.dt} # {}

\* C3: the remote backend keeps the filter contract of the local one: a
\* search or a browse that is given a documentation type returns only
\* documents of that type.
C3_RemoteHonoursFilter ==
  /\ (res.op = "remote.search" /\ res.ok /\ Given(res.dt))
       => ResultTypesOf(res.out) \subseteq {res.dt}
  /\ (res.op = "remote.browse" /\ res.ok /\ Given(res.dt))
       => DocTypesOf(res.out) \subseteq {res.dt}

\* the most results a caller who asked for limit of them may be handed
AtMost(limit) == IF limit < 0 THEN 0 ELSE limit

\* C4: a search never returns more results than the limit it was called
\* with, whatever number the caller passed, and a browse never returns more
\* than 20 documents.
C4_ResultsBounded ==
  /\ (res.op \in {"search", "remote.search"} /\ res.ok)
       => Len(res.out) <= AtMost(res.lim)
  /\ (res.op \in {"browse", "remote.browse"} /\ res.ok)
       => Len(res.out) <= BrowseCap

\* the document processHtmlFile built for the file behind an id
BuiltFor(id) ==
  LET docs == RunDocuments(DocTypes)
  IN docs[CHOOSE i \in 1..Len(docs) : docs[i].id = id]

Stored(d, id) == \E i \in 1..Len(d.rows) : d.rows[i].id = id

\* C5: the lookup by id returns, field for field, the document that was
\* built and inserted at index time, and nothing for an id that was never
\* stored.
C5_RoundTrip ==
  (res.op = "getById" /\ res.ok)
    => res.out = IF Stored(db, res.q) THEN <<BuiltFor(res.q)>> ELSE <<>>


(***************************************************************************)
(* Properties of an index run and of the server beside it.                 *)
(***************************************************************************)
ToolOps == {"tool.search", "tool.document", "tool.browse"}

\* the reply of the tool call recorded in r when it is served from the store d
ToolReply(d, r) ==
  LET reply == CASE r.op = "tool.search" -> search_deadline_docs(d, r.q, r.dt, r.lim)
                 [] r.op = "tool.document" -> get_deadline_document(d, r.q)
                 [] OTHER -> browse_deadline_sections(d, r.q, r.dt)
  IN [ok |-> reply.ok, out |-> reply.out]

\* C6: a reader that queries the store while an index run is in progress
\* gets the reply of the complete previous index or of the complete new one,
\* never the reply of an empty, missing or partly populated store.
C6_ReaderSeesCompleteIndex ==
  (res.op \in ToolOps /\ res.busy)
    => [ok |-> res.ok, out |-> res.out]
         \in {ToolReply(ix.prev, res), ToolReply(BuiltStore(fsys), res)}

\* C7: in every state of the store during and after an index run the
\* full-text projection has as many entries as the documents table has rows,
\* and the entry of a row carries the row's title, content, keywords, section
\* and type.
C7_ProjectionInStep ==
  /\ Len(db.ftsRows) = Len(db.rows)
  /\ \A i \in 1..Len(db.rows) : db.ftsRows[i] = FtsEntryOf(db.rows[i])

\* C8: when a write to the store fails during an index run, the run aborts
\* instead of going on to the next file, and the store is not left partly
\* rebuilt.
C8_WriteFailureAborts ==
  ix.failed => /\ ix.pc = "crashed"
               /\ db \in {ix.prev, BuiltStore(fsys)}

\* C9: a search with the empty query fails: in the local backend, in the
\* dispatch of the search tool and in the remote backend alike.
C9_EmptyQueryFails ==
  (res.op \in {"search", "tool.search", "remote.search"} /\ res.q = <<>>)
    => ~res.ok

\* DEADLINE_DOCS_PATH is not set, or a documentation directory is missing
NoLocalDocs == ~env \/ ~validateLocalDocs(fsys)

\* C10: without local documentation the server does not stop: it goes on in
\* remote mode and answers a search with the curated results.
C10_ServerFallsBack ==
  NoLocalDocs =>
    /\ srv # "exited"
    /\ (res.op = "tool.search" /\ ~Falsy(res.q))
         => /\ res.ok
            /\ res.out.results = remoteSearchDocumentation(res.q, res.dt, res.lim).out

(***************************************************************************)
(* Properties of the first start, of repeated runs and of the files an     *)
(* index run drops.                                                        *)
(***************************************************************************)
\* C11: on the first start, when no index run has built the database, the
\* server builds it itself before it serves: it has not exited, and once it
\* has left its start-up the store holds the documents table.
C11_FirstRunIndexes ==
  (ix.runs = 0 /\ srv # "init") => (srv = "running" /\ db.documents)

\* what COUNT(*) and COUNT(*) ... GROUP BY the type column count in a store
CountsOf(d) ==
  LET types == {d.rows[i].docType : i \in 1..Len(d.rows)}
  IN [total |-> Len(d.rows),
      byType |-> [t \in types |->
                    Cardinality({i \in 1..Len(d.rows) : d.rows[i].docType = t})]]

\* a second or later index run has ended and no store statement ever failed
RebuiltAgain == ix.runs >= 2 /\ ix.pc = "done" /\ faults = 0

\* an index run that follows another over the unchanged corpus leaves the
\* rows, the projection and the counts as the run before it left them
RebuildKeepsStore ==
  RebuiltAgain =>
    /\ db.rows = ix.prev.rows
    /\ db.ftsRows = ix.prev.ftsRows
    /\ CountsOf(db) = CountsOf(ix.prev)

\* C12: two consecutive index runs over the unchanged corpus leave the store
\* with the same documents, and stats reports after the second run the total
\* and the per-type counts it reported after the first.
C12_RebuildIdempotent ==
  RebuiltAgain =>
    /\ db.rows = ix.prev.rows
    /\ getStats(ix.prev).ok /\ getStats(db).ok
    /\ getStats(db).out = getStats(ix.prev).out

\* the files of the corpus, each with the type of its directory
CorpusFiles ==
  UNION {{<<t, Corpus[t][k]>> : k \in 1..Len(Corpus[t])} : t \in DocTypes}

\* C13: a file whose extracted main content is shorter than 50 characters is
\* never inserted, whatever its title and its code snippets are, and every
\* stored document has a content of at least 50 characters.
C13_ShortContentDropped ==
  /\ \A i \in 1..Len(db.rows) : TextLen(db.rows[i].content) >= 50
  /\ \A tf \in CorpusFiles :
       (tf[2].readable /\ TextLen(extractMainContent(tf[2])) < 50)
         => ~Stored(db, DocId(tf[1], tf[2].rel))

\* a run has ended with the documents of python-reference stored, and the
\* short file, which has a title and a code snippet of 70 characters, is not
\* among them
C13_Witness ==
  /\ ix.pc = "done" /\ faults = 0
  /\ Stored(db, DocId("python-reference", ApiPage.rel))
  /\ ~Stored(db, DocId("python-reference", ShortPage.rel))
  /\ TextLen(extractMainContent(ShortPage)) < 50
  /\ ShortPage.hasTitle
  /\ extractCodeExamples(TreeAfterMainContent(ShortPage)) # <<>>

\* the title matches one of the listed index or listing phrases
NavTitle(title) ==
  \E k \in 1..Len(navIndicators) : IncludesPhrase(LowerText(title), navIndicators[k])

\* the resolved title: the first h1, else the title element, else the base name
ResolvedTitle(f) == IF ResolveTitle(f) # <<>> THEN ResolveTitle(f) ELSE f.base

\* the body contains 'list of' and the whole text is shorter than 1000
ShortListing(f) ==
  /\ \E i \in 1..Len(f.blocks) :
        IncludesPhrase(LowerText(f.blocks[i].text), <<"list", "of">>)
  /\ SumLen(RawTexts(f)) < 1000

\* C14: after an index run no file is stored whose resolved title matches a
\* listed phrase or whose body is a short listing, so no stored document
\* carries a title that matches a listed phrase.
C14_NavigationRejected ==
  ix.pc = "done" =>
    /\ \A tf \in CorpusFiles :
         (tf[2].readable /\ (NavTitle(ResolvedTitle(tf[2])) \/ ShortListing(tf[2])))
           => ~Stored(db, DocId(tf[1], tf[2].rel))
    /\ \A i \in 1..Len(db.rows) : ~NavTitle(db.rows[i].title)

\* the stored ids of one documentation type
StoredOfType(d, t) ==
  {d.rows[i].id : i \in {j \in 1..Len(d.rows) : d.rows[j].docType = t}}

\* the ids of the files of one type that processHtmlFile makes documents of
DocumentsOfType(t) ==
  {DocId(t, Corpus[t][k].rel) :
     k \in {j \in 1..Len(Corpus[t]) : FileOutcome(Corpus[t][j]) = "document"}}

\* an index run has ended without a failed store statement while the
\* directory of at least one documentation type was missing
RanWithMissingType == ix.pc = "done" /\ faults = 0 /\ fsys # DocTypes

\* a run with a missing directory stores the other types in full and
\* nothing of the missing type
MissingTypeSkipped ==
  RanWithMissingType =>
    \A t \in DocTypes :
      StoredOfType(db, t) = IF t \in fsys THEN DocumentsOfType(t) ELSE {}

\* C15: when the directory of one type is missing, the run still indexes the
\* other types in full, and stats then reports no key for the missing type
\* and a total that is the sum of the counts of the other types.
C15_MissingTypeTolerated ==
  RanWithMissingType =>
    /\ \A t \in fsys : StoredOfType(db, t) = DocumentsOfType(t)
    /\ getStats(db).ok
    /\ DOMAIN getStats(db).out.byType \subseteq fsys
    /\ getStats(db).out.total =
         Cardinality(UNION {DocumentsOfType(t) : t \in fsys})

(***************************************************************************)
(* Properties of the counters of a run, of the order of results and of     *)
(* the types of documents.                                                 *)
(***************************************************************************)
\* the indexer stands between two types or behind the last one
BetweenTypes == ix.pc \in {"type", "stats", "count", "group", "done"}

\* the positions in TypeOrder of the types whose loop over the files has ended
LoopsEnded ==
  {j \in 1..NumTypes : /\ TypeOrder[j] \in fsys
                       /\ (ix.pc = "type" => j < ix.t)}

\* C16: a file that cannot be read does not stop the run: at the end of the
\* loop over the files of a type, processed is the number of files of the
\* type and indexed is the number of rows inserted for it, and indexed never
\* exceeds processed.
C16_CountersAtEndOfType ==
  /\ ix.indexed <= ix.processed
  /\ (BetweenTypes /\ LoopsEnded # {})
       => LET j == CHOOSE k \in LoopsEnded : \A l \in LoopsEnded : l <= k
              t == TypeOrder[j]
          IN /\ ix.processed = Len(Corpus[t])
             /\ ix.indexed = Cardinality(StoredOfType(db, t))

\* the loop over scripting-reference has ended: its first file could not be
\* read, its second was still processed and inserted
C16_Witness ==
  /\ ix.pc = "type" /\ ix.t = 3
  /\ "scripting-reference" \in fsys
  /\ ~Corpus["scripting-reference"][1].readable
  /\ ix.processed = 2 /\ ix.indexed = 1
  /\ Stored(db, DocId("scripting-reference", PluginPage.rel))

\* C17: the results of a search are ordered best match first with the lower
\* score the better: the score of a result is never greater than the score of
\* the result after it, in the local backend and in the remote one.
C17_ScoresAscend ==
  (res.op \in {"search", "remote.search"} /\ res.ok)
    => \A i \in 1..(Len(res.out) - 1) : res.out[i].score <= res.out[i + 1].score

\* C18: every document that a search, a lookup by id or a browse of either
\* backend returns, and every stored row, has one of the three documentation
\* types, whatever id or query the caller passed.
C18_TypeIsOneOfThree ==
  /\ \A i \in 1..Len(db.rows) : db.rows[i].docType \in DocTypes
  /\ (res.op \in {"search", "remote.search"} /\ res.ok)
       => ResultTypesOf(res.out) \subseteq DocTypes
  /\ (res.op \in {"getById", "browse", "remote.getById", "remote.browse"} /\ res.ok)
       => DocTypesOf(res.out) \subseteq DocTypes

(***************************************************************************)
(* Properties of getCodeExamples.                                          *)
(***************************************************************************)
\* the examples of the first n of the candidate rows, in the order of the rows
ExamplesOfFirst(rows, n) ==
  Flatten([i \in 1..n |-> searchExtractCodeExamples(rows[i].content)])

\* C19: for a limit of 0 or more getCodeExamples returns at most limit
\* strings; they come from at most 2 * limit candidate documents taken in
\* rank order, the examples of a better ranked document first, and no
\* document after the one at which the limit was reached contributes.
C19_CodeExamplesBounded ==
  /\ (res.op \in {"codeExamples", "remote.codeExamples"} /\ res.ok /\ res.lim >= 0)
       => Len(res.out) <= res.lim
  /\ (res.op = "codeExamples" /\ res.ok /\ res.lim >= 0)
       => LET c == CodeCandidates(db, res.q, res.lim)
          IN /\ Len(c) <= 2 * res.lim
             /\ \A i \in 1..(Len(c) - 1) :
                   CodeRank(FtsEntryOf(c[i]), res.q) <= CodeRank(FtsEntryOf(c[i + 1]), res.q)
             /\ \E n \in 0..Len(c) :
                   /\ res.out = Take(ExamplesOfFirst(c, n), res.lim)
                   /\ n < Len(c) => Len(ExamplesOfFirst(c, n)) >= res.lim
                   /\ n > 0 => Len(ExamplesOfFirst(c, n - 1)) < res.lim

\* a call whose limit is reached at the best ranked of two candidates, which
\* is not the first row of the table: the other contributes nothing
C19_Witness ==
  /\ res.op = "codeExamples" /\ res.ok /\ res.lim = 1
  /\ LET c == CodeCandidates(db, res.q, res.lim)
     IN /\ Len(c) = 2
        /\ c[1].rowid > c[2].rowid
        /\ CodeRank(FtsEntryOf(c[1]), res.q) < CodeRank(FtsEntryOf(c[2]), res.q)
        /\ searchExtractCodeExamples(c[2].content) # <<>>
        /\ res.out = searchExtractCodeExamples(c[1].content)

\* the code examples extracted at index time from the documents of a store
\* that match the code query
IndexedExamples(d, query) ==
  UNION {{BuiltFor(d.rows[i].id).codeExamples[k] :
            k \in 1..Len(BuiltFor(d.rows[i].id).codeExamples)} :
         i \in {j \in 1..Len(d.rows) : CodeMatches(FtsEntryOf(d.rows[j]), query)}}

\* C20: every string getCodeExamples returns is one of the code examples
\* that were extracted at index time from a document matching the query,
\* and a matching document that was indexed with such an example yields it.
C20_ExamplesAreIndexedOnes ==
  (res.op = "codeExamples" /\ res.ok)
    => /\ {res.out[i] : i \in 1..Len(res.out)} \subseteq IndexedExamples(db, res.q)
       /\ (res.lim >= 1 /\ IndexedExamples(db, res.q) # {}) => res.out # <<>>


(***************************************************************************)
(* Properties of the text functions of the indexer.                        *)
(***************************************************************************)
\* a string in normal form: only characters of the safe set, white space
\* only as single characters between other characters
Normalized(t) ==
  /\ \A i \in 1..Len(t) : Kind(t[i]) # "x"
  /\ \A i \in 1..Len(t) : Kind(t[i]) = "s" => ChLen(t[i]) = 1
  /\ \A i \in 1..(Len(t) - 1) : ~(Kind(t[i]) = "s" /\ Kind(t[i + 1]) = "s")
  /\ t # <<>> => (Kind(t[1]) # "s" /\ Kind(t[Len(t)]) # "s")

\* C21: for every input string the output of cleanText has no two adjacent
\* white-space characters, only characters of the safe set and no white space
\* at its ends, so cleanText applied to its own output changes nothing.
C21_CleanTextNormalizes ==
  res.op = "cleanText" => (Normalized(res.out) /\ cleanText(res.out) = res.out)

\* the title and the content of every stored row are in normal form
StoredTextsNormalized ==
  \A i \in 1..Len(db.rows) :
    Normalized(db.rows[i].title) /\ Normalized(db.rows[i].content)


\* the cleaned texts of the elements that a code selector finds
Snippets(blocks) ==
  {cleanText(blocks[i].text) :
     i \in {j \in 1..Len(blocks) :
              blocks[j].sels \cap {codeSelectors[k] : k \in 1..Len(codeSelectors)} # {}}}

\* C22: extractCodeExamples keeps a snippet exactly when its length after
\* cleanText is at least 20 and less than 2000; the list it returns holds no
\* string twice.
C22_SnippetLengthWindow ==
  res.op = "extractCodeExamples" =>
    /\ \A i \in 1..Len(res.out) :
         /\ res.out[i] \in Snippets(res.q)
         /\ 20 <= TextLen(res.out[i]) /\ TextLen(res.out[i]) < 2000
    /\ \A c \in Snippets(res.q) :
         (20 <= TextLen(c) /\ TextLen(c) < 2000)
           => \E i \in 1..Len(res.out) : res.out[i] = c
    /\ \A i, j \in 1..Len(res.out) : res.out[i] = res.out[j] => i = j


\* the file of the corpus behind a document id
FileOf(id) == (CHOOSE tf \in CorpusFiles : DocId(tf[1], tf[2].rel) = id)[2]

\* C23: the code examples of a document are those of the code elements of
\* its file: the elements that extractMainContent removes from the content
\* container beforehand do not change what extractCodeExamples finds.
C23_RemovalKeepsCodeExamples ==
  \A i \in 1..Len(queue) :
    queue[i].op = "insert"
      => queue[i].doc.codeExamples = extractCodeExamples(FileOf(queue[i].doc.id).blocks)


\* the terms of the two vocabularies
Vocabulary == {(deadlineTerms \o progTerms)[k] : k \in 1..Len(deadlineTerms \o progTerms)}

\* the term occurs in the title or the content of a row, whatever its case
OccursIn(row, term) ==
  Includes(LowerText(row.title), term) \/ Includes(LowerText(row.content), term)

\* C24: the keyword list of a stored document holds a term of the two
\* vocabularies exactly when the term occurs in the stored title or the
\* stored content, code snippets included; it holds no other term and no
\* term twice.
C24_KeywordsMatchStoredText ==
  \A i \in 1..Len(db.rows) :
    LET ks == JsonParse(db.rows[i].keywords)
    IN /\ \A term \in Vocabulary :
            (\E k \in 1..Len(ks) : ks[k] = term) <=> OccursIn(db.rows[i], term)
       /\ \A k \in 1..Len(ks) : ks[k] \in Vocabulary
       /\ \A k, l \in 1..Len(ks) : ks[k] = ks[l] => k = l


(***************************************************************************)
(* Properties of the set-up, the end and the schema of an index run.       *)
(***************************************************************************)
\* a statement of initDatabase is still waiting in the queue
SchemaPending ==
  \E i \in 1..Len(queue) :
    queue[i].op \in {InitStatements[k].op : k \in 1..Len(InitStatements)}

\* the table, the projection and the trigger of the indexer exist
SchemaInPlace ==
  db.documents /\ db.typeCol = IndexerTypeCol /\ db.fts /\ db.trigger

\* the insert of a document is executed only on the schema of its run
InsertsAfterSchema ==
  (queue # <<>> /\ Head(queue).op = "insert")
    => SchemaInPlace

\* C25: once initialize() has completed, the old table and projection have
\* been dropped and the new table, projection and trigger have been created,
\* and no insert of the run is executed before that.
C25_InitializeAwaitsSchema ==
  /\ ix.pc \in Running => (~SchemaPending /\ SchemaInPlace)
  /\ InsertsAfterSchema


\* the promise of indexAllDocumentation is settled, or the process has ended
RunSettled == ix.pc \in {"done", "crashed"}

\* C26: an index run that has begun eventually settles: it completes or it
\* fails outright, also when a store statement of the run returns an error.
C26_RunSettles == (ix.pc \in Running) ~> RunSettled


\* the store is one that an index run of this repository built and filled
IndexerBuilt == db.documents /\ db.typeCol = IndexerTypeCol /\ db.rows # <<>>

\* the type with which the document of an id is stored
StoredType(d, id) ==
  (CHOOSE r \in {d.rows[i] : i \in 1..Len(d.rows)} : r.id = id).docType

\* C27: on a store that an index run has built and filled, search, getById,
\* browse and stats name only tables and columns the indexer created: they
\* succeed, and a document they return carries its stored type.
C27_QueriesFitSchema ==
  IndexerBuilt =>
    /\ (res.op \in {"getById", "browse", "stats"}) => res.ok
    /\ (res.op = "search" /\ FtsSyntaxOk(res.q)) => res.ok
    /\ (res.op \in {"getById", "browse"} /\ res.ok)
         => \A i \in 1..Len(res.out) :
               res.out[i].docType = StoredType(db, res.out[i].id)
    /\ (res.op = "search" /\ res.ok)
         => \A i \in 1..Len(res.out) :
               res.out[i].section.docType = StoredType(db, res.out[i].section.id)


(***************************************************************************)
(* Properties of the ConfigManager.                                        *)
(***************************************************************************)
\* C28: isUsingLocalDocs returns true only when getConfig has selected the
\* local configuration; getConfig selects it only when DEADLINE_DOCS_PATH is
\* set and the three directories exist; and once a configuration is
\* selected, a later getConfig returns it whatever the environment is then.
C28_LocalOnlyWhenSelected ==
  /\ (res.op = "isUsingLocalDocs" /\ res.out) => res.q = "local"
  /\ cfg = "local" => (env /\ validateLocalDocs(fsys))
  /\ cfg # "null" =>
       \A e \in BOOLEAN, dirs \in SUBSET DocTypes : getConfig(cfg, e, dirs) = cfg

====
